---- MODULE Spec2Model ----
(***************************************************************************)
(* sea-lex: the scanning loop Lexer::lex over a priority-ordered table of  *)
(* (TokenCreator, TokenMatcher) pairs.                                     *)
(*                                                                         *)
(* A &str is a sequence of UTF-8 bytes.  One behaviour is one call of      *)
(* lex(source) on one rule table; each pass of the 'outer loop is a step.  *)
(***************************************************************************)
EXTENDS Integers, Sequences, FiniteSets, TLC

\* ------------------------------------------------------------------ bounds
\* Longest source, in characters.
MaxLen == 3
\* Longest rule table.
MaxRules == 2

\* ------------------------------------------------------------------- text
\* The characters inputs are made of, as their UTF-8 encodings.
Digit == <<49>>
PlusCh == <<43>>
Space == <<32>>
Hook == <<198, 146>>

CharPool == {Digit, PlusCh, Space, Hook}

RECURSIVE Encode(_)
Encode(chars) ==
    IF chars = <<>> THEN <<>> ELSE Head(chars) \o Encode(Tail(chars))

CharSeqs == UNION {[1..n -> CharPool] : n \in 0..MaxLen}

Sources == {Encode(cs) : cs \in CharSeqs}

\* Option<usize>
None == [some |-> FALSE]
Some(n) == [some |-> TRUE, val |-> n]

\* str::len: the length in bytes
ByteLen(s) == Len(s)

\* &s[from..]
SliceFrom(s, from) == SubSeq(s, from + 1, Len(s))

\* &s[..to]
SliceTo(s, to) == SubSeq(s, 1, to)

\* str::is_char_boundary: the start, the end, or a byte that is no continuation byte
IsCharBoundary(s, i) ==
    \/ i = 0
    \/ i = Len(s)
    \/ i > 0 /\ i < Len(s) /\ ~(s[i + 1] \in 128..191)

\* The encoded width of the character whose lead byte is b.
CharWidth(b) ==
    IF b < 128 THEN 1 ELSE IF b < 224 THEN 2 ELSE IF b < 240 THEN 3 ELSE 4

\* The character that starts at byte offset i of s.
CharAt(s, i) == SubSeq(s, i + 1, i + CharWidth(s[i + 1]))

\* s.chars().next().unwrap_or_default(): the first code point, or U+0000
FirstChar(s) == IF s = <<>> THEN <<0>> ELSE CharAt(s, 0)

\* str::starts_with
StartsWith(s, prefix) ==
    /\ Len(prefix) <= Len(s)
    /\ SubSeq(s, 1, Len(prefix)) = prefix

\* ------------------------------------------------------------------ regex
\* The expressions of the rule tables: an optional ^ and one character class
\* repeated greedily at least `min` times (^\d+, \d+, ^\s+).
DigitClass == {Digit}
SpaceClass == {Space}

ReAnchoredDigits == [anchored |-> TRUE, class |-> DigitClass, min |-> 1]
ReDigits == [anchored |-> FALSE, class |-> DigitClass, min |-> 1]
ReAnchoredSpaces == [anchored |-> TRUE, class |-> SpaceClass, min |-> 1]

\* The end of the longest run of class characters that starts at offset i.
RECURSIVE RunEnd(_, _, _)
RunEnd(class, s, i) ==
    IF i < Len(s) /\ CharAt(s, i) \in class
    THEN RunEnd(class, s, i + CharWidth(s[i + 1]))
    ELSE i

\* The number of characters in s[from..to].
RECURSIVE CharCount(_, _, _)
CharCount(s, from, to) ==
    IF from >= to THEN 0 ELSE 1 + CharCount(s, from + CharWidth(s[from + 1]), to)

\* Whether the expression matches s starting at offset i.
MatchesAt(re, s, i) ==
    /\ IsCharBoundary(s, i)
    /\ re.anchored => i = 0
    /\ CharCount(s, i, RunEnd(re.class, s, i)) >= re.min

\* Regex::find: the leftmost match, as [start, end], or None.
RegexFind(re, s) ==
    LET starts == {i \in 0..Len(s) : MatchesAt(re, s, i)}
    IN  IF starts = {} THEN None
        ELSE LET st == CHOOSE i \in starts : \A j \in starts : i <= j
             IN  [some |-> TRUE, start |-> st, end |-> RunEnd(re.class, s, st)]

\* ---------------------------------------------------------------- matcher
\* TokenMatcher::Literal / Regex / Fn
Literal(p) == [kind |-> "Literal", pattern |-> p]
Regex(re) == [kind |-> "Regex", re |-> re]
FnMatcher(f) == [kind |-> "Fn", f |-> f]

\* The closures of the custom matchers: |_| Some(1)
ApplyMatcherFn(f, input) ==
    CASE f = "one" -> Some(1)
      [] OTHER -> None

\* Variant: the literal is searched anywhere in the input (contains for starts_with).
LiteralContains(literal, input) ==
    IF \E i \in 0..Len(input) : StartsWith(SliceFrom(input, i), literal)
    THEN Some(ByteLen(literal)) ELSE None

\* Variant: the length is counted in characters (literal.chars().count()).
LiteralCharCount(literal, input) ==
    IF StartsWith(input, literal)
    THEN Some(CharCount(literal, 0, Len(literal))) ELSE None

\* Variant: the literal is matched as if it were repeated (p+): the match covers every
\* consecutive copy at the start of the input.
RECURSIVE CopiesAtStart(_, _)
CopiesAtStart(literal, input) ==
    IF literal # <<>> /\ StartsWith(input, literal)
    THEN 1 + CopiesAtStart(literal, SliceFrom(input, Len(literal)))
    ELSE 0

LiteralMatchesRepeated(literal, input) ==
    IF StartsWith(input, literal)
    THEN Some(ByteLen(literal) * CopiesAtStart(literal, input)) ELSE None

\* Self::Literal(literal) => input.starts_with(literal).then_some(literal.len())
LiteralMatches(literal, input) ==
    IF StartsWith(input, literal) THEN Some(ByteLen(literal)) ELSE None

\* Self::Regex(regex) => regex.find(input).map(|m| m.len())
RegexMatches(re, input) ==
    LET m == RegexFind(re, input)
    IN  IF m.some THEN Some(m.end - m.start) ELSE None

\* TokenMatcher::matches
Matches(matcher, input) ==
    CASE matcher.kind = "Literal" -> LiteralMatches(matcher.pattern, input)
      [] matcher.kind = "Regex" -> RegexMatches(matcher.re, input)
      [] matcher.kind = "Fn" -> ApplyMatcherFn(matcher.f, input)

\* ---------------------------------------------------------------- creator
\* TokenCreator::Cloned / Fn / None
Cloned(t) == [kind |-> "Cloned", token |-> t]
FnCreator(f) == [kind |-> "Fn", f |-> f]
NoneCreator == [kind |-> "None"]

IsDigits(s) == s # <<>> /\ \A i \in 1..Len(s) : s[i] \in 48..57

RECURSIVE ParseInt(_)
ParseInt(s) ==
    IF s = <<>> THEN 0 ELSE 10 * ParseInt(SubSeq(s, 1, Len(s) - 1)) + (s[Len(s)] - 48)

\* The closure |s| Self::Number(s.parse().unwrap()): it panics on a text that is
\* no integer.
CreatorFnPanics(f, contents) == f = "Number" /\ ~IsDigits(contents)

ApplyCreatorFn(f, contents) ==
    CASE f = "Number" -> [variant |-> "Number", value |-> ParseInt(contents)]
      [] OTHER -> [variant |-> f, value |-> contents]

\* Variant: the None creator yields a token type too, so a skipped match is pushed.
CreateNoneEmits(creator, contents) ==
    CASE creator.kind = "Cloned" -> <<creator.token>>
      [] creator.kind = "Fn" -> <<ApplyCreatorFn(creator.f, contents)>>
      [] creator.kind = "None" -> <<[variant |-> "Skipped", value |-> contents]>>

\* TokenCreator::create: Option<T>, as a sequence of at most one token type
Create(creator, contents) ==
    CASE creator.kind = "Cloned" -> <<creator.token>>
      [] creator.kind = "Fn" -> <<ApplyCreatorFn(creator.f, contents)>>
      [] creator.kind = "None" -> <<>>

\* Token::new
NewToken(typ, contents, position) ==
    [typ |-> typ, contents |-> contents, position |-> position]

\* ------------------------------------------------------------- rule tables
Rule(creator, matcher) == [creator |-> creator, matcher |-> matcher]

RulePool ==
    { Rule(FnCreator("Number"), Regex(ReAnchoredDigits)),
      Rule(FnCreator("Number"), Regex(ReDigits)),
      Rule(Cloned("Plus"), Literal(PlusCh)),
      Rule(Cloned("Hook"), Literal(Hook)),
      Rule(Cloned("Inc"), Literal(Digit \o PlusCh)),
      Rule(Cloned("Any"), FnMatcher("one")),
      Rule(NoneCreator, Regex(ReAnchoredSpaces)),
      Rule(NoneCreator, Literal(<<>>)) }

Tables == UNION {[1..n -> RulePool] : n \in 0..MaxRules}

\* ------------------------------------------------------------------ state
VARIABLES
    source,     \* the argument of lex
    matchers,   \* Lexer::matchers
    tokens,     \* let mut tokens
    remaining,  \* let mut remaining
    position,   \* let mut position
    pc,         \* "scan" | "ok" | "err" | "panic"
    result,     \* what lex returned
    matched,    \* history: per successful match, the rule that won, the byte
                \* offset of the probe in source, the length, whether a token was pushed
    other,      \* a second call of lex on the same Lexer, between two of its steps
    skips,      \* the skip list of a derived lexer
    decl        \* the enum declaration a lexer is derived from

vars == <<source, matchers, tokens, remaining, position, pc, result, matched,
          other, skips, decl>>

\* No second call, no declaration.
NoScan == [pc |-> "none"]
NoDecl == [attrs |-> <<>>, variants |-> <<>>]

NoResult == [tag |-> "None"]

\* Ok(tokens)
OkResult(toks) == [tag |-> "Ok", tokens |-> toks]

\* Variant: the unmatched character is taken from the first byte alone.
LexerErrorFirstByte(pos, rest) ==
    [tag |-> "Err", position |-> pos, unmatched |-> <<rest[1]>>]

\* Err(LexerError { position, unmatched })
LexerError(pos, rest) ==
    [tag |-> "Err", position |-> pos, unmatched |-> FirstChar(rest)]

\* The history stops growing here: a table with an empty match never leaves the loop.
MaxSteps == MaxLen + 2

Init ==
    /\ source \in Sources
    /\ matchers \in Tables
    /\ tokens = <<>>
    /\ remaining = source
    /\ position = 0
    /\ pc = "scan"
    /\ result = NoResult
    /\ matched = <<>>
    /\ other = NoScan
    /\ skips = <<>>
    /\ decl = NoDecl

\* for (creator, matcher) in &self.matchers { if let Some(len) = matcher.matches(remaining)
\* the index of the first rule, from i on, whose matcher matches; 0 when none does
RECURSIVE FirstMatchFrom(_, _, _)
FirstMatchFrom(table, input, i) ==
    IF i > Len(table) THEN 0
    ELSE IF Matches(table[i].matcher, input).some THEN i
    ELSE FirstMatchFrom(table, input, i + 1)

\* Variant: maximal munch, the rule with the longest match wins.
FirstMatchLongest(table, input) ==
    LET hits == {i \in 1..Len(table) : Matches(table[i].matcher, input).some}
    IN  IF hits = {} THEN 0
        ELSE CHOOSE i \in hits :
               \A j \in hits :
                 \/ Matches(table[i].matcher, input).val
                      > Matches(table[j].matcher, input).val
                 \/ /\ Matches(table[i].matcher, input).val
                         = Matches(table[j].matcher, input).val
                    /\ i <= j

\* Variant: the table is walked from its end, the last matching rule wins.
FirstMatchLast(table, input) ==
    LET hits == {i \in 1..Len(table) : Matches(table[i].matcher, input).some}
    IN  IF hits = {} THEN 0 ELSE CHOOSE i \in hits : \A j \in hits : j <= i

\* Variant: after a skipped match the walk of the table goes on behind the rule that
\* won, instead of starting again at the first entry.
FirstMatchResume(table, input) ==
    IF matched # <<>> /\ ~matched[Len(matched)].emitted
    THEN FirstMatchFrom(table, input, matched[Len(matched)].rule + 1)
    ELSE FirstMatchFrom(table, input, 1)

FirstMatch(table, input) == FirstMatchFrom(table, input, 1)

\* &remaining[..len] and &remaining[len..] are both taken
SliceOk(input, len) == len <= Len(input) /\ IsCharBoundary(input, len)

\* Variant: position += 1, one per match.
AdvanceByOne(pos, len) == pos + 1

\* Variant: the position is left where it was.
AdvanceHold(pos, len) == pos

\* position += len
Advance(pos, len) == pos + len

\* Variant: position += len runs before the token is pushed.
TokenPositionAfter(pos, len) == pos + len

\* The position a pushed token records.
TokenPosition(pos, len) == pos

\* Variant: the rule that won is moved to the front of the table, to be probed first
\* by the next pass.
ConsumeMoveToFront ==
    /\ pc = "scan"
    /\ remaining # <<>>
    /\ Len(matched) < MaxSteps
    /\ LET i == FirstMatch(matchers, remaining)
       IN  /\ i # 0
           /\ LET len == Matches(matchers[i].matcher, remaining).val
                  creator == matchers[i].creator
              IN  IF ~SliceOk(remaining, len)
                     \/ (creator.kind = "Fn"
                         /\ CreatorFnPanics(creator.f, SliceTo(remaining, len)))
                  THEN /\ pc' = "panic"
                       /\ UNCHANGED <<tokens, remaining, position, result, matched,
                                      matchers>>
                  ELSE LET matched_text == SliceTo(remaining, len)
                           typ == Create(creator, matched_text)
                       IN  /\ remaining' = SliceFrom(remaining, len)
                           /\ tokens' =
                                IF typ # <<>>
                                THEN Append(tokens,
                                       NewToken(typ[1], matched_text,
                                                TokenPosition(position, len)))
                                ELSE tokens
                           /\ position' = Advance(position, len)
                           /\ matched' = Append(matched,
                                [rule |-> i, start |-> Len(source) - Len(remaining),
                                 len |-> len,
                                 emitted |-> typ # <<>>])
                           /\ matchers' = <<matchers[i]>>
                                \o SubSeq(matchers, 1, i - 1)
                                \o SubSeq(matchers, i + 1, Len(matchers))
                           /\ UNCHANGED <<pc, result>>
    /\ UNCHANGED <<other, skips, decl>>
    /\ UNCHANGED source

\* One pass of the 'outer loop in which some matcher matches.
Consume ==
    /\ pc = "scan"
    /\ remaining # <<>>
    /\ Len(matched) < MaxSteps
    /\ LET i == FirstMatch(matchers, remaining)
       IN  /\ i # 0
           /\ LET len == Matches(matchers[i].matcher, remaining).val
                  creator == matchers[i].creator
              IN  IF ~SliceOk(remaining, len)
                     \/ (creator.kind = "Fn"
                         /\ CreatorFnPanics(creator.f, SliceTo(remaining, len)))
                  THEN /\ pc' = "panic"
                       /\ UNCHANGED <<tokens, remaining, position, result, matched>>
                  ELSE LET matched_text == SliceTo(remaining, len)
                           typ == Create(creator, matched_text)
                       IN  /\ remaining' = SliceFrom(remaining, len)
                           /\ tokens' =
                                IF typ # <<>>
                                THEN Append(tokens,
                                       NewToken(typ[1], matched_text,
                                                TokenPosition(position, len)))
                                ELSE tokens
                           /\ position' = Advance(position, len)
                           /\ matched' = Append(matched,
                                [rule |-> i, start |-> Len(source) - Len(remaining),
                                 len |-> len,
                                 emitted |-> typ # <<>>])
                           /\ UNCHANGED <<pc, result>>
    /\ UNCHANGED <<other, skips, decl>>
    /\ UNCHANGED <<source, matchers>>

\* Variant: the loop is left with break, and the tokens collected so far are returned.
ReturnPartial ==
    /\ pc = "scan"
    /\ remaining # <<>>
    /\ FirstMatch(matchers, remaining) = 0
    /\ pc' = "ok"
    /\ result' = OkResult(tokens)
    /\ UNCHANGED <<other, skips, decl>>
    /\ UNCHANGED <<source, matchers, tokens, remaining, position, matched>>

\* Variant: the error is reported, the unmatched character dropped, the loop goes on.
ReturnErrResync ==
    /\ pc = "scan"
    /\ remaining # <<>>
    /\ FirstMatch(matchers, remaining) = 0
    /\ result' = LexerError(position, remaining)
    /\ remaining' = SliceFrom(remaining, Len(FirstChar(remaining)))
    /\ position' = position + Len(FirstChar(remaining))
    /\ UNCHANGED <<other, skips, decl>>
    /\ UNCHANGED <<source, matchers, tokens, pc, matched>>

\* No matcher matches: return Err(LexerError { position, unmatched })
ReturnErr ==
    /\ pc = "scan"
    /\ remaining # <<>>
    /\ FirstMatch(matchers, remaining) = 0
    /\ pc' = "err"
    /\ result' = LexerError(position, remaining)
    /\ UNCHANGED <<other, skips, decl>>
    /\ UNCHANGED <<source, matchers, tokens, remaining, position, matched>>

\* Variant: the loop tests its condition after the pass, so the table is probed against
\* the empty rest too, and an unmatched end is reported as an error.
ReturnOkProbing ==
    /\ pc = "scan"
    /\ remaining = <<>>
    /\ IF matchers # <<>> /\ FirstMatch(matchers, remaining) = 0
       THEN /\ pc' = "err"
            /\ result' = [tag |-> "Err", position |-> position, unmatched |-> <<0>>]
       ELSE /\ pc' = "ok"
            /\ result' = OkResult(tokens)
    /\ UNCHANGED <<other, skips, decl>>
    /\ UNCHANGED <<source, matchers, tokens, remaining, position, matched>>

\* Variant: the end of input is accepted only right after a pushed token; reached by a
\* skipped match it is reported as an unexpected character.
ReturnOkAfterToken ==
    /\ pc = "scan"
    /\ remaining = <<>>
    /\ IF matched # <<>> /\ ~matched[Len(matched)].emitted
       THEN /\ pc' = "err"
            /\ result' = [tag |-> "Err", position |-> position, unmatched |-> <<0>>]
       ELSE /\ pc' = "ok"
            /\ result' = OkResult(tokens)
    /\ UNCHANGED <<other, skips, decl>>
    /\ UNCHANGED <<source, matchers, tokens, remaining, position, matched>>

\* remaining.is_empty(): Ok(tokens)
ReturnOk ==
    /\ pc = "scan"
    /\ remaining = <<>>
    /\ pc' = "ok"
    /\ result' = OkResult(tokens)
    /\ UNCHANGED <<other, skips, decl>>
    /\ UNCHANGED <<source, matchers, tokens, remaining, position, matched>>

Next == Consume \/ ReturnErr \/ ReturnOk

Spec == Init /\ [][Next]_vars

\* --------------------------------------------- lex as a function of its arguments
\* What lex(&self, source) returns: the loop of Lexer::lex run to its end. "Panic" is
\* a slice off a character boundary or a creator closure that unwraps an error; "Hang"
\* is a pass that consumed nothing, which every later pass repeats.
RECURSIVE LexFrom(_, _, _, _)
LexFrom(table, rest, pos, toks) ==
    IF rest = <<>> THEN OkResult(toks)
    ELSE LET i == FirstMatch(table, rest)
         IN  IF i = 0 THEN LexerError(pos, rest)
             ELSE LET len == Matches(table[i].matcher, rest).val
                      creator == table[i].creator
                  IN  IF ~SliceOk(rest, len)
                         \/ (creator.kind = "Fn"
                             /\ CreatorFnPanics(creator.f, SliceTo(rest, len)))
                      THEN [tag |-> "Panic"]
                      ELSE IF len = 0 THEN [tag |-> "Hang"]
                      ELSE LET matched_text == SliceTo(rest, len)
                               typ == Create(creator, matched_text)
                           IN  LexFrom(table, SliceFrom(rest, len), Advance(pos, len),
                                       IF typ # <<>>
                                       THEN Append(toks,
                                              NewToken(typ[1], matched_text,
                                                       TokenPosition(pos, len)))
                                       ELSE toks)

Lex(table, src) == LexFrom(table, src, 0, <<>>)

\* ------------------------------------------------- two calls of lex on one Lexer
\* lex takes &self: two calls on the same Lexer may run at once. The call whose state
\* is in source .. matched takes the steps; Switch parks it and resumes the other one.
ShMaxLen == 1
ShMaxRules == 2

ShSources == {Encode(cs) : cs \in UNION {[1..n -> CharPool] : n \in 0..ShMaxLen}}

ShRulePool ==
    { Rule(FnCreator("Number"), Regex(ReAnchoredDigits)),
      Rule(Cloned("Plus"), Literal(PlusCh)),
      Rule(Cloned("Any"), FnMatcher("one")),
      Rule(NoneCreator, Regex(ReAnchoredSpaces)) }

ShTables == UNION {[1..n -> ShRulePool] : n \in 0..ShMaxRules}

Parked(src) ==
    [source |-> src, tokens |-> <<>>, remaining |-> src, position |-> 0,
     pc |-> "scan", result |-> NoResult, matched |-> <<>>]

SharedInit ==
    /\ source \in ShSources
    /\ matchers \in ShTables
    /\ tokens = <<>>
    /\ remaining = source
    /\ position = 0
    /\ pc = "scan"
    /\ result = NoResult
    /\ matched = <<>>
    /\ \E src \in ShSources : other = Parked(src)
    /\ skips = <<>>
    /\ decl = NoDecl

Switch ==
    /\ other # NoScan
    /\ source' = other.source
    /\ tokens' = other.tokens
    /\ remaining' = other.remaining
    /\ position' = other.position
    /\ pc' = other.pc
    /\ result' = other.result
    /\ matched' = other.matched
    /\ other' = [source |-> source, tokens |-> tokens, remaining |-> remaining,
                 position |-> position, pc |-> pc, result |-> result,
                 matched |-> matched]
    /\ UNCHANGED <<matchers, skips, decl>>

SharedNext == Consume \/ ReturnErr \/ ReturnOk \/ Switch

SharedSpec == SharedInit /\ [][SharedNext]_vars

\* ------------------------------------------------ tables with two skip rules
\* A whitespace skip rule, a skip rule for a literal, and one token rule, in
\* every declaration order.
ChainRules ==
    { Rule(NoneCreator, Regex(ReAnchoredSpaces)),
      Rule(NoneCreator, Literal(Hook)),
      Rule(FnCreator("Number"), Regex(ReAnchoredDigits)) }

ChainTables ==
    {t \in [1..Cardinality(ChainRules) -> ChainRules] :
        \A i, j \in DOMAIN t : t[i] = t[j] => i = j}

ChainInit ==
    /\ source \in Sources
    /\ matchers \in ChainTables
    /\ tokens = <<>>
    /\ remaining = source
    /\ position = 0
    /\ pc = "scan"
    /\ result = NoResult
    /\ matched = <<>>
    /\ other = NoScan
    /\ skips = <<>>
    /\ decl = NoDecl

ChainSpec == ChainInit /\ [][Next]_vars

\* ------------------------------------------------------------ error.rs
\* LexError::UnexpectedChar / InvalidRegex / TokenParseError
LexErrorUnexpectedChar(pos, character) ==
    [tag |-> "UnexpectedChar", position |-> pos, character |-> character]
LexErrorInvalidRegex(pattern) ==
    [tag |-> "InvalidRegex", pattern |-> pattern]
LexErrorTokenParseError(pos, error) ==
    [tag |-> "TokenParseError", position |-> pos, error |-> error]

\* Result<T, E>
Ok(v) == [ok |-> TRUE, val |-> v]
Err(e) == [ok |-> FALSE, err |-> e]

\* ------------------------------------------------------- token_parser.rs
\* What a field parser function returns: a plain value, or a Result of its own.
Plain(v) == [returns |-> "T", val |-> v]
Fallible(r) == [returns |-> "Result", res |-> r]

\* The field parser functions:
\*   fn parse_int(s: &str) -> i64 { s.parse().unwrap() }
\*   fn parse_string(s: &str) -> String { s.to_string() }
\*   str::parse::<i64>, a function from &str to Result<i64, ParseIntError>
ParserFnPanics(f, input) == f = "parse_int" /\ ~IsDigits(input)

ApplyParserFn(f, input) ==
    CASE f = "parse_int" -> Plain(ParseInt(input))
      [] f = "str::parse" ->
            IF IsDigits(input) THEN Fallible(Ok(ParseInt(input)))
            ELSE Fallible(Err([kind |-> "ParseIntError", text |-> input]))
      [] OTHER -> Plain(input)

\* Variant: the error records the offset 0 instead of the position it was given.
IntoTokenResultNoPosition(r, pos) ==
    IF r.returns = "T" THEN Ok(r.val)
    ELSE IF r.res.ok THEN Ok(r.res.val)
    ELSE Err(LexErrorTokenParseError(0, r.res.err))

\* IntoTokenResult::into_token_result, for T and for Result<T, E>
IntoTokenResult(r, pos) ==
    IF r.returns = "T" THEN Ok(r.val)
    ELSE IF r.res.ok THEN Ok(r.res.val)
    ELSE Err(LexErrorTokenParseError(pos, r.res.err))

\* impl TokenParser<T> for F: self(input).into_token_result(position)
TokenParserParse(f, input, pos) == IntoTokenResult(ApplyParserFn(f, input), pos)

\* ------------------------------------------- the creators the derive macro builds
\* TokenCreator::Unit(Self::V), TokenCreator::Parser(closure), and the creator of a
\* rule that emits nothing
Unit(v) == [kind |-> "Unit", value |-> v]
Parser(variant, func) == [kind |-> "Parser", variant |-> variant, func |-> func]
Skip == [kind |-> "Skip"]

\* The closure of a Parser creator, called with the matched text and a position:
\*   "String::from": Ok(Self::V(String::from(text)))
\*   otherwise:      parser.parse(text, position).map(Self::V)
ParserClosure(creator, text, pos) ==
    LET r == IF creator.func = "String::from" THEN Ok(text)
             ELSE TokenParserParse(creator.func, text, pos)
    IN  IF r.ok THEN Ok([variant |-> creator.variant, value |-> r.val]) ELSE r

\* The creator contract: Ok of at most one token value, or the parser's error.
CreatorCreate(creator, text, start) ==
    CASE creator.kind = "Unit" -> Ok(<<creator.value>>)
      [] creator.kind = "Skip" -> Ok(<<>>)
      [] creator.kind = "Parser" ->
            LET r == ParserClosure(creator, text, start)
            IN  IF r.ok THEN Ok(<<r.val>>) ELSE r

CreatorPanics(creator, text) ==
    creator.kind = "Parser" /\ ParserFnPanics(creator.func, text)

\* TokenInfo { kind, text, start, end }
TokenInfo(kind, text, start, end) ==
    [kind |-> kind, text |-> text, start |-> start, end |-> end]

\* ------------------------------------------- the engine with a global skip list
\* The first matcher of the list, from i on, that matches; 0 when none does.
RECURSIVE ProbeFrom(_, _, _)
ProbeFrom(ms, rest, i) ==
    IF i > Len(ms) THEN 0
    ELSE IF Matches(ms[i], rest).some THEN i
    ELSE ProbeFrom(ms, rest, i + 1)

Probe(ms, rest) == ProbeFrom(ms, rest, 1)

RuleMatchers(rules) == [j \in DOMAIN rules |-> rules[j].matcher]

\* Skip phase: probe the skip list in order; on the first match advance the cursor and
\* start again at the top of the list; stop when nothing matches or the input ends.
\* The spans skipped are appended to spans.
RECURSIVE SkipPhase(_, _, _, _)
SkipPhase(skipList, input, cursor, spans) ==
    LET Skipped(i, len) ==
            IF ~SliceOk(SliceFrom(input, cursor), len) THEN [kind |-> "panic"]
            ELSE IF len = 0 THEN [kind |-> "hang"]
            ELSE SkipPhase(skipList, input, cursor + len,
                   Append(spans, [list |-> "skip", rule |-> i, start |-> cursor,
                                  len |-> len, emitted |-> FALSE]))
        Probed(rest, i) ==
            IF i = 0 THEN [kind |-> "at", cursor |-> cursor, spans |-> spans]
            ELSE Skipped(i, Matches(skipList[i], rest).val)
        From(rest) == Probed(rest, Probe(skipList, rest))
    IN  IF cursor = Len(input) THEN [kind |-> "at", cursor |-> cursor, spans |-> spans]
        ELSE From(SliceFrom(input, cursor))

\* One pull: skip phase, end of input, token phase, creator. The outcome is a token, the
\* end of the stream, or an error, with the cursor and the spans consumed; "hang" is a
\* match of length 0 that the pull repeats forever, "panic" a slice off a character
\* boundary or a parser function that unwraps an error.
RECURSIVE EnginePull(_, _, _, _, _)
EnginePull(skipList, rules, input, cursor, spans) ==
    LET Created(i, text, start, end, r, consumed) ==
            IF ~r.ok
            THEN [kind |-> "error", cursor |-> end, spans |-> consumed, error |-> r.err]
            ELSE IF r.val # <<>>
            THEN [kind |-> "token", cursor |-> end, spans |-> consumed,
                  token |-> TokenInfo(r.val[1], text, start, end)]
            ELSE IF end = start THEN [kind |-> "hang"]
            ELSE EnginePull(skipList, rules, input, end, consumed)
        Create1(sp, i, text, len, r) ==
            Created(i, text, sp.cursor, sp.cursor + len, r,
                    Append(sp.spans, [list |-> "token", rule |-> i, start |-> sp.cursor,
                                      len |-> len, emitted |-> r.ok /\ r.val # <<>>]))
        Sliced(sp, i, text, len) ==
            IF CreatorPanics(rules[i].creator, text) THEN [kind |-> "panic"]
            ELSE Create1(sp, i, text, len, CreatorCreate(rules[i].creator, text, sp.cursor))
        Matched(sp, rest, i, len) ==
            IF ~SliceOk(rest, len) THEN [kind |-> "panic"]
            ELSE Sliced(sp, i, SliceTo(rest, len), len)
        Probed(sp, rest, i) ==
            IF i = 0
            THEN [kind |-> "error", cursor |-> sp.cursor, spans |-> sp.spans,
                  error |-> LexErrorUnexpectedChar(sp.cursor, FirstChar(rest))]
            ELSE Matched(sp, rest, i, Matches(rules[i].matcher, rest).val)
        TokenPhase(sp, rest) == Probed(sp, rest, Probe(RuleMatchers(rules), rest))
        AfterSkip(sp) ==
            IF sp.kind # "at" THEN [kind |-> sp.kind]
            ELSE IF sp.cursor = Len(input)
            THEN [kind |-> "end", cursor |-> sp.cursor, spans |-> sp.spans]
            ELSE TokenPhase(sp, SliceFrom(input, sp.cursor))
    IN  AfterSkip(SkipPhase(skipList, input, cursor, spans))

\* The batch operation: pull until the end of the stream or the first error.
RECURSIVE CollectFrom(_, _, _, _, _)
CollectFrom(skipList, rules, input, cursor, toks) ==
    LET p == EnginePull(skipList, rules, input, cursor, <<>>)
    IN  CASE p.kind = "end" -> [tag |-> "Ok", tokens |-> toks]
          [] p.kind = "error" -> [tag |-> "Err", error |-> p.error]
          [] p.kind = "token" ->
                IF p.cursor = cursor THEN [tag |-> "Hang"]
                ELSE CollectFrom(skipList, rules, input, p.cursor, Append(toks, p.token))
          [] p.kind = "hang" -> [tag |-> "Hang"]
          [] p.kind = "panic" -> [tag |-> "Panic"]

Collect(skipList, rules, input) == CollectFrom(skipList, rules, input, 0, <<>>)

\* ----------------------------------------------------------- sea-lex-derive
\* The text inside the parentheses of an attribute (meta_list.tokens.to_string()) is a
\* sequence of characters; an identifier or a path stands as one element.
IsSpaceChar(c) == c = " "

\* str::trim
RECURSIVE TrimStart(_)
TrimStart(s) == IF s # <<>> /\ IsSpaceChar(Head(s)) THEN TrimStart(Tail(s)) ELSE s

RECURSIVE TrimEnd(_)
TrimEnd(s) ==
    IF s # <<>> /\ IsSpaceChar(s[Len(s)]) THEN TrimEnd(SubSeq(s, 1, Len(s) - 1)) ELSE s

Trim(s) == TrimEnd(TrimStart(s))

\* str::ends_with
EndsWith(s, suffix) ==
    /\ Len(suffix) <= Len(s)
    /\ SubSeq(s, Len(s) - Len(suffix) + 1, Len(s)) = suffix

\* str::split(','): the pieces between the commas, in order
RECURSIVE SplitFrom(_, _, _)
SplitFrom(s, i, piece) ==
    IF i > Len(s) THEN <<piece>>
    ELSE IF s[i] = "," THEN <<piece>> \o SplitFrom(s, i + 1, <<>>)
    ELSE SplitFrom(s, i + 1, Append(piece, s[i]))

Split(s) == SplitFrom(s, 1, <<>>)

\* [String]::join(", ")
RECURSIVE Join(_)
Join(parts) ==
    IF parts = <<>> THEN <<>>
    ELSE IF Len(parts) = 1 THEN parts[1]
    ELSE parts[1] \o <<",", " ">> \o Join(Tail(parts))

\* syn::parse_str::<LitStr>(..).value() on a text that starts and ends with a quote:
\* the characters between the quotes with \\ and \" unescaped; no value when a quote
\* stands unescaped between them, or a backslash escapes nothing the model knows.
RECURSIVE Unescape(_)
Unescape(s) ==
    IF s = <<>> THEN Ok(<<>>)
    ELSE IF Head(s) = "\""  THEN Err("not a string literal")
    ELSE IF Head(s) = "\\"
    THEN IF Len(s) >= 2 /\ s[2] \in {"\\", "\""}
         THEN LET r == Unescape(SubSeq(s, 3, Len(s)))
              IN  IF r.ok THEN Ok(<<s[2]>> \o r.val) ELSE r
         ELSE Err("unknown escape")
    ELSE LET r == Unescape(Tail(s))
         IN  IF r.ok THEN Ok(<<Head(s)>> \o r.val) ELSE r

LitStrValue(quoted) ==
    IF Len(quoted) < 2 THEN Err("not a string literal")
    ELSE Unescape(SubSeq(quoted, 2, Len(quoted) - 1))

\* Option<(String, bool)>
NoPattern == [some |-> FALSE]
SomePattern(pattern, is_regex) ==
    [some |-> TRUE, pattern |-> pattern, is_regex |-> is_regex]

\* Variant: the pattern is classified by what it contains, a regular expression when
\* it has a backslash or a repetition sign in it, whatever its quoting.
ParsePatternStringByContent(pattern_with_quotes) ==
    LET LooksLikeRegex(text) == \E k \in DOMAIN text : text[k] \in {"\\", "+", "*"}
    IN  IF StartsWith(pattern_with_quotes, <<"r", "\"">>)
           /\ EndsWith(pattern_with_quotes, <<"\"">>)
        THEN LET text == SubSeq(pattern_with_quotes, 3, Len(pattern_with_quotes) - 1)
             IN  SomePattern(text, LooksLikeRegex(text))
        ELSE IF StartsWith(pattern_with_quotes, <<"\"">>)
                /\ EndsWith(pattern_with_quotes, <<"\"">>)
        THEN LET lit == LitStrValue(pattern_with_quotes)
             IN  IF lit.ok THEN SomePattern(lit.val, LooksLikeRegex(lit.val))
                 ELSE NoPattern
        ELSE NoPattern

\* parse_pattern_string
ParsePatternString(pattern_with_quotes) ==
    IF StartsWith(pattern_with_quotes, <<"r", "\"">>)
       /\ EndsWith(pattern_with_quotes, <<"\"">>)
    THEN SomePattern(SubSeq(pattern_with_quotes, 3, Len(pattern_with_quotes) - 1), TRUE)
    ELSE IF StartsWith(pattern_with_quotes, <<"\"">>)
            /\ EndsWith(pattern_with_quotes, <<"\"">>)
    THEN LET lit == LitStrValue(pattern_with_quotes)
         IN  IF lit.ok THEN SomePattern(lit.val, FALSE) ELSE NoPattern
    ELSE NoPattern

\* An attribute #[path(tokens)], and a variant with its attributes and its fields.
Attr(path, toks) == [path |-> path, meta |-> "List", tokens |-> toks]
Variant(ident, fields, attrs) == [ident |-> ident, fields |-> fields, attrs |-> attrs]

\* Variant: each pattern found is put in front of those found before it.
RECURSIVE ExtractSkipPatternsReversed(_)
ExtractSkipPatternsReversed(attrs) ==
    IF attrs = <<>> THEN <<>>
    ELSE LET attr == Head(attrs)
             parsed == ParsePatternString(Trim(attr.tokens))
         IN  ExtractSkipPatternsReversed(Tail(attrs))
             \o (IF attr.path = "skip" /\ attr.meta = "List" /\ parsed.some
                 THEN <<[pattern |-> parsed.pattern, is_regex |-> parsed.is_regex]>>
                 ELSE <<>>)

\* extract_skip_patterns
RECURSIVE ExtractSkipPatterns(_)
ExtractSkipPatterns(attrs) ==
    IF attrs = <<>> THEN <<>>
    ELSE LET attr == Head(attrs)
             parsed == ParsePatternString(Trim(attr.tokens))
         IN  (IF attr.path = "skip" /\ attr.meta = "List" /\ parsed.some
              THEN <<[pattern |-> parsed.pattern, is_regex |-> parsed.is_regex]>>
              ELSE <<>>)
             \o ExtractSkipPatterns(Tail(attrs))

\* Option<TokenMatcherInfo>
NoInfo == [some |-> FALSE]
TokenMatcherInfo(pattern, creator, is_regex) ==
    [some |-> TRUE, pattern |-> pattern, creator |-> creator, is_regex |-> is_regex]

\* TokenCreatorType::Unit / Function
CreatorTypeUnit(ident) == [type |-> "Unit", ident |-> ident]
CreatorTypeFunction(ident, func_name) ==
    [type |-> "Function", ident |-> ident, func_name |-> func_name]

\* parse_token_attribute
ParseTokenAttribute(attr, variant) ==
    IF attr.meta # "List" THEN NoInfo
    ELSE LET parts == [k \in DOMAIN Split(attr.tokens) |-> Trim(Split(attr.tokens)[k])]
             parsed == ParsePatternString(Trim(parts[1]))
         IN  IF ~parsed.some THEN NoInfo
             ELSE IF Len(parts) = 1
             THEN IF variant.fields = "Unit"
                  THEN TokenMatcherInfo(parsed.pattern, CreatorTypeUnit(variant.ident),
                                        parsed.is_regex)
                  ELSE NoInfo
             ELSE IF variant.fields = "Unnamed"
                  THEN TokenMatcherInfo(parsed.pattern,
                         CreatorTypeFunction(variant.ident, Join(Tail(parts))),
                         parsed.is_regex)
                  ELSE NoInfo

\* extract_token_matcher: the first token attribute of the variant decides
RECURSIVE ExtractFromAttrs(_, _)
ExtractFromAttrs(attrs, variant) ==
    IF attrs = <<>> THEN NoInfo
    ELSE IF Head(attrs).path = "token" THEN ParseTokenAttribute(Head(attrs), variant)
    ELSE ExtractFromAttrs(Tail(attrs), variant)

ExtractTokenMatcher(variant) == ExtractFromAttrs(variant.attrs, variant)

\* for variant in &data_enum.variants { .. token_matchers.push(matcher) }
RECURSIVE TokenMatchers(_)
TokenMatchers(variants) ==
    IF variants = <<>> THEN <<>>
    ELSE LET info == ExtractTokenMatcher(Head(variants))
         IN  (IF info.some THEN <<info>> ELSE <<>>) \o TokenMatchers(Tail(variants))

\* matcher_implementations: the (creator, pattern, is_regex) triple of a rule
MatcherImplementation(info) ==
    [creator |-> IF info.creator.type = "Unit" THEN Unit(info.creator.ident)
                 ELSE Parser(info.creator.ident,
                             IF Len(info.creator.func_name) = 1
                             THEN info.creator.func_name[1] ELSE "closure"),
     pattern |-> info.pattern,
     is_regex |-> info.is_regex]

\* The arguments the generated lexer() hands to Lexer::new.
GeneratedMatchers(d) ==
    LET infos == TokenMatchers(d.variants)
    IN  [k \in DOMAIN infos |-> MatcherImplementation(infos[k])]

GeneratedSkipPatterns(d) == ExtractSkipPatterns(d.attrs)

\* ------------------------------------------------- construction of the engine
\* The UTF-8 bytes of a pattern text.
CharBytes(c) ==
    CASE c = "+" -> PlusCh
      [] c = "1" -> Digit
      [] c = " " -> Space
      [] c = "\\" -> <<92>>
      [] c = "d" -> <<100>>
      [] c = "s" -> <<115>>
      [] c = "[" -> <<91>>
      [] c = "]" -> <<93>>
      [] c = "^" -> <<94>>
      [] OTHER -> <<63>>

RECURSIVE BytesOf(_)
BytesOf(text) == IF text = <<>> THEN <<>> ELSE CharBytes(Head(text)) \o BytesOf(Tail(text))

\* The pattern compiler on a regular expression: the expression is anchored at the
\* start whether or not its text begins with ^; \s+, \d+ and [\d+]+ are the expressions
\* of the declarations, and a text that is no expression (+ alone: nothing to repeat)
\* does not compile.
CompileRegex(text) ==
    LET body == IF text # <<>> /\ Head(text) = "^" THEN Tail(text) ELSE text
    IN  CASE body = <<"\\", "s", "+">> ->
                Ok([anchored |-> TRUE, class |-> SpaceClass, min |-> 1])
          [] body = <<"\\", "d", "+">> ->
                Ok([anchored |-> TRUE, class |-> DigitClass, min |-> 1])
          [] body = <<"[", "\\", "d", "+", "]", "+">> ->
                Ok([anchored |-> TRUE, class |-> {Digit, PlusCh}, min |-> 1])
          [] OTHER -> Err("regex parse error")

\* compile(pattern, is_regex) -> Result<CompiledMatcher, LexError>
Compile(pattern, is_regex) ==
    IF is_regex
    THEN LET re == CompileRegex(pattern)
         IN  IF re.ok THEN Ok(Regex(re.val)) ELSE Err(LexErrorInvalidRegex(pattern))
    ELSE Ok(Literal(BytesOf(pattern)))

\* The first pattern of the list that does not compile, as Err; Ok of nothing otherwise.
RECURSIVE FirstInvalid(_)
FirstInvalid(specs) ==
    IF specs = <<>> THEN Ok(<<>>)
    ELSE LET m == Compile(Head(specs).pattern, Head(specs).is_regex)
         IN  IF m.ok THEN FirstInvalid(Tail(specs)) ELSE m

\* Lexer::new(input, matchers, skip_patterns) -> Result<Lexer<T>, LexError>: every
\* pattern is compiled; one that does not compile fails the construction.
LexerNew(ms, skip_patterns) ==
    LET bad == FirstInvalid(ms \o skip_patterns)
    IN  IF ~bad.ok THEN bad
        ELSE Ok([rules |-> [k \in DOMAIN ms |->
                              Rule(ms[k].creator,
                                   Compile(ms[k].pattern, ms[k].is_regex).val)],
                 skips |-> [k \in DOMAIN skip_patterns |->
                              Compile(skip_patterns[k].pattern,
                                      skip_patterns[k].is_regex).val]])

\* --------------------------------------------------- the declarations derived from
MaxVariants == 2

RawStr(p) == <<"r", "\"">> \o p \o <<"\"">>
PlainStr(p) == <<"\"">> \o p \o <<"\"">>

\* #[skip(r"\s+")], #[token(skip = r"\s+")], #[skip("+")]
SkipReAttr == Attr("skip", RawStr(<<"\\", "s", "+">>))
TokenSkipAttr == Attr("token", <<"skip", " ", "=", " ">> \o RawStr(<<"\\", "s", "+">>))
SkipLitAttr == Attr("skip", PlainStr(<<"+">>))

EnumAttrLists ==
    { <<>>, <<SkipReAttr>>, <<TokenSkipAttr>>, <<SkipReAttr, SkipLitAttr>> }

\* #[token(r"\d+", parse_int)] Number(i64)
\* #[token(r"[\d+]+", str::parse)] Sum(i64)
\* #[token("+")] Plus
\* #[token(r"+")] Repeat
VariantPool ==
    { Variant("Number", "Unnamed",
              <<Attr("token", RawStr(<<"\\", "d", "+">>) \o <<",", " ", "parse_int">>)>>),
      Variant("Sum", "Unnamed",
              <<Attr("token", RawStr(<<"[", "\\", "d", "+", "]", "+">>)
                                \o <<",", " ", "str::parse">>)>>),
      Variant("Plus", "Unit", <<Attr("token", PlainStr(<<"+">>))>>),
      Variant("Repeat", "Unit", <<Attr("token", RawStr(<<"+">>))>>) }

Decls ==
    { [attrs |-> a, variants |-> v] :
        a \in EnumAttrLists,
        v \in UNION {[1..n -> VariantPool] : n \in 0..MaxVariants} }

\* ------------------------------------------------------ a derived lexer at work
\* pc is "build" before the lexer is constructed, "failed" when Lexer::new returned an
\* error to its caller; tokens holds the tokens pulled so far, position the cursor,
\* matched the spans consumed.
DerivedInit ==
    /\ decl \in Decls
    /\ source \in Sources
    /\ matchers = <<>>
    /\ skips = <<>>
    /\ tokens = <<>>
    /\ remaining = source
    /\ position = 0
    /\ pc = "build"
    /\ result = NoResult
    /\ matched = <<>>
    /\ other = NoScan

\* Variant: a pattern that does not compile is left out, and the lexer is built from the
\* rules that remain.
DerivedLexerLenient ==
    /\ pc = "build"
    /\ LET ok(specs) == SelectSeq(specs, LAMBDA s : Compile(s.pattern, s.is_regex).ok)
           built == LexerNew(ok(GeneratedMatchers(decl)), ok(GeneratedSkipPatterns(decl)))
       IN  /\ pc' = "scan"
           /\ matchers' = built.val.rules
           /\ skips' = built.val.skips
           /\ UNCHANGED result
    /\ UNCHANGED <<source, tokens, remaining, position, matched, other, decl>>

\* T::lexer(input): Lexer::new(input, matchers, skip_patterns).unwrap()
DerivedLexer ==
    /\ pc = "build"
    /\ \E built \in {LexerNew(GeneratedMatchers(decl), GeneratedSkipPatterns(decl))} :
          IF built.ok
          THEN /\ pc' = "scan"
               /\ matchers' = built.val.rules
               /\ skips' = built.val.skips
               /\ UNCHANGED result
          ELSE /\ pc' = "panic"
               /\ result' = [tag |-> "Err", error |-> built.err]
               /\ UNCHANGED <<matchers, skips>>
    /\ UNCHANGED <<source, tokens, remaining, position, matched, other, decl>>

\* Lexer::new(input, matchers, skip_patterns) called with the same lists by a caller
\* that matches on the result (examples/debug.rs).
LexerBuilt ==
    /\ pc = "build"
    /\ \E built \in {LexerNew(GeneratedMatchers(decl), GeneratedSkipPatterns(decl))} :
          IF built.ok
          THEN /\ pc' = "scan"
               /\ matchers' = built.val.rules
               /\ skips' = built.val.skips
               /\ UNCHANGED result
          ELSE /\ pc' = "failed"
               /\ result' = [tag |-> "Err", error |-> built.err]
               /\ UNCHANGED <<matchers, skips>>
    /\ UNCHANGED <<source, tokens, remaining, position, matched, other, decl>>

\* One call of the pull interface.
Pull ==
    /\ pc = "scan"
    /\ \E p \in {EnginePull(skips, matchers, source, position, <<>>)} :
          /\ p.kind # "hang"
          /\ IF p.kind = "panic"
             THEN /\ pc' = "panic"
                  /\ UNCHANGED <<tokens, remaining, position, result, matched>>
             ELSE /\ position' = p.cursor
                  /\ remaining' = SliceFrom(source, p.cursor)
                  /\ matched' = matched \o p.spans
                  /\ tokens' = IF p.kind = "token" THEN Append(tokens, p.token)
                               ELSE tokens
                  /\ pc' = CASE p.kind = "token" -> "scan"
                             [] p.kind = "end" -> "ok"
                             [] p.kind = "error" -> "err"
                  /\ result' = CASE p.kind = "token" -> result
                                 [] p.kind = "end" -> [tag |-> "Ok", tokens |-> tokens]
                                 [] p.kind = "error" ->
                                       [tag |-> "Err", error |-> p.error]
    /\ UNCHANGED <<source, matchers, skips, other, decl>>

DerivedNext == DerivedLexer \/ LexerBuilt \/ Pull

DerivedSpec == DerivedInit /\ [][DerivedNext]_vars

\* ------------------------------------------------------------- matcher.rs
\* Matcher { creator, pattern }, with a MatcherPattern::Literal or ::Regex
Matcher(creator, pattern) == [creator |-> creator, pattern |-> pattern]

\* MatcherPattern::matches
\*   Self::Literal(s) => input.starts_with(s).then_some(s.len())
\*   Self::Regex(r) => r.find(input).map(|m| m.end())
MatcherPatternMatches(pattern, input) ==
    CASE pattern.kind = "Literal" -> LiteralMatches(pattern.pattern, input)
      [] pattern.kind = "Regex" ->
            LET m == RegexFind(pattern.re, input)
            IN  IF m.some THEN Some(m.end) ELSE None

\* input.chars().take(n).collect::<String>(): the first n characters, all of the input
\* when it has fewer
RECURSIVE CharsTake(_, _)
CharsTake(s, n) ==
    IF n = 0 \/ s = <<>> THEN <<>>
    ELSE CharAt(s, 0) \o CharsTake(SliceFrom(s, CharWidth(s[1])), n - 1)

\* Matcher::apply: Option<(Option<T>, usize)>; passed is the text given to the creator
MatcherApply(m, input) ==
    LET Applied(len, text) ==
            [some |-> TRUE, created |-> Create(m.creator, text), len |-> len,
             passed |-> text]
        Matched(r) == IF r.some THEN Applied(r.val, CharsTake(input, r.val)) ELSE None
    IN  Matched(MatcherPatternMatches(m.pattern, input))

\* The matchers applied: the creator |s| Self::Ident(s.to_string()) keeps the text it
\* is given.
MatcherPool ==
    { Matcher(FnCreator("Ident"), Literal(PlusCh)),
      Matcher(FnCreator("Ident"), Literal(Hook)),
      Matcher(FnCreator("Ident"), Regex(ReAnchoredDigits)),
      Matcher(FnCreator("Ident"), Regex(ReDigits)),
      Matcher(Cloned("Plus"), Literal(PlusCh)),
      Matcher(NoneCreator, Regex(ReAnchoredSpaces)) }

\* One call of one of the matching functions on one input: matchers holds the matcher,
\* source the input, result what the call returned.
MatcherInit ==
    /\ source \in Sources
    /\ matchers \in {<<m>> : m \in MatcherPool}
    /\ tokens = <<>>
    /\ remaining = source
    /\ position = 0
    /\ pc = "call"
    /\ result = NoResult
    /\ matched = <<>>
    /\ other = NoScan
    /\ skips = <<>>
    /\ decl = NoDecl

\* matcher.apply(input)
CallMatcherApply ==
    /\ pc = "call"
    /\ pc' = "applied"
    /\ result' = MatcherApply(matchers[1], source)
    /\ UNCHANGED <<source, matchers, tokens, remaining, position, matched, other,
                   skips, decl>>

\* matcher.pattern.matches(input)
CallMatcherPatternMatches ==
    /\ pc = "call"
    /\ pc' = "pattern_matched"
    /\ result' = MatcherPatternMatches(matchers[1].pattern, source)
    /\ UNCHANGED <<source, matchers, tokens, remaining, position, matched, other,
                   skips, decl>>

\* TokenMatcher::matches(input) of the TokenMatcher with the same pattern
CallTokenMatcherMatches ==
    /\ pc = "call"
    /\ pc' = "token_matched"
    /\ result' = Matches(matchers[1].pattern, source)
    /\ UNCHANGED <<source, matchers, tokens, remaining, position, matched, other,
                   skips, decl>>

MatcherNext ==
    CallMatcherApply \/ CallMatcherPatternMatches \/ CallTokenMatcherMatches

MatcherSpec == MatcherInit /\ [][MatcherNext]_vars

\* ---------------------------------------------- a field parser function called
\* Largest position a parser is called with.
MaxPosition == 2

\* The parser functions called: fn(&str) -> i64, fn(&str) -> Result<i64, ParseIntError>
\* and fn(&str) -> String.
ParserFns == {"parse_int", "str::parse", "parse_string"}

\* One call parser.parse(input, position): source holds input, matchers the creator
\* whose function is called, position the argument; result holds what the function
\* returned and then what the conversion made of it, matched keeps the former.
ParserInit ==
    /\ source \in Sources
    /\ matchers \in {<<Parser("V", f)>> : f \in ParserFns}
    /\ position \in 0..MaxPosition
    /\ tokens = <<>>
    /\ remaining = source
    /\ pc = "call"
    /\ result = NoResult
    /\ matched = <<>>
    /\ other = NoScan
    /\ skips = <<>>
    /\ decl = NoDecl

\* self(input)
CallParserFn ==
    /\ pc = "call"
    /\ IF ParserFnPanics(matchers[1].func, source)
       THEN pc' = "panic" /\ UNCHANGED result
       ELSE pc' = "returned" /\ result' = ApplyParserFn(matchers[1].func, source)
    /\ UNCHANGED <<source, matchers, tokens, remaining, position, matched, other,
                   skips, decl>>

\* .into_token_result(position)
CallIntoTokenResult ==
    /\ pc = "returned"
    /\ pc' = "converted"
    /\ matched' = <<result>>
    /\ result' = IntoTokenResult(result, position)
    /\ UNCHANGED <<source, matchers, tokens, remaining, position, other, skips, decl>>

ParserNext == CallParserFn \/ CallIntoTokenResult

ParserSpec == ParserInit /\ [][ParserNext]_vars

\* ------------------------------------------------------ the derive macro expanded
\* #[skip(",")]
SkipCommaAttr == Attr("skip", PlainStr(<<",">>))

DeriveAttrLists ==
    { <<>>, <<SkipReAttr>>, <<SkipReAttr, SkipLitAttr>>, <<SkipLitAttr, SkipReAttr>>,
      <<TokenSkipAttr, SkipLitAttr>>, <<SkipCommaAttr>> }

\* #[token(r"\d+", parse_int)] Number(i64)
\* #[token("+")] Plus
\* #[token("\\d")] LiteralBackslashD
\* #[token(",")] Comma
\* #[token("+", parse_string)] Sign(String)
DeriveVariantPool ==
    { Variant("Number", "Unnamed",
              <<Attr("token", RawStr(<<"\\", "d", "+">>) \o <<",", " ", "parse_int">>)>>),
      Variant("Plus", "Unit", <<Attr("token", PlainStr(<<"+">>))>>),
      Variant("LiteralBackslashD", "Unit",
              <<Attr("token", PlainStr(<<"\\", "\\", "d">>))>>),
      Variant("Comma", "Unit", <<Attr("token", PlainStr(<<",">>))>>),
      Variant("Sign", "Unnamed",
              <<Attr("token", PlainStr(<<"+">>) \o <<",", " ", "parse_string">>)>>) }

DeriveDecls ==
    { [attrs |-> a, variants |-> v] :
        a \in DeriveAttrLists,
        v \in UNION {[1..n -> DeriveVariantPool] : n \in 0..MaxVariants} }

\* One expansion of #[derive(Token)]: decl is the enum; afterwards matchers holds the
\* generated token rule table and skips the generated skip list, as the
\* (creator, pattern, is_regex) and (pattern, is_regex) entries of the vec! literals.
DeriveInit ==
    /\ decl \in DeriveDecls
    /\ source = <<>>
    /\ matchers = <<>>
    /\ skips = <<>>
    /\ tokens = <<>>
    /\ remaining = <<>>
    /\ position = 0
    /\ pc = "derive"
    /\ result = NoResult
    /\ matched = <<>>
    /\ other = NoScan

\* derive_token
DeriveToken ==
    /\ pc = "derive"
    /\ pc' = "expanded"
    /\ matchers' = GeneratedMatchers(decl)
    /\ skips' = GeneratedSkipPatterns(decl)
    /\ UNCHANGED <<source, tokens, remaining, position, result, matched, other, decl>>

DeriveNext == DeriveToken

DeriveSpec == DeriveInit /\ [][DeriveNext]_vars

\* ----------------------------------------------------------------- claims
\* The input a match was probed against: source from the match's offset on.
ProbedAt(m) == SliceFrom(source, m.start)

\* The matches that pushed a token, in order.
EmittedMatches == SelectSeq(matched, LAMBDA m : m.emitted)

RECURSIVE SumLens(_)
SumLens(ms) == IF ms = <<>> THEN 0 ELSE Head(ms).len + SumLens(Tail(ms))

\* C1. Priority over length: every match was won by the lowest-indexed rule whose
\* matcher matches the input at the cursor; no earlier rule of the table matches there,
\* whatever the lengths the later rules would consume.
PriorityOverLength ==
    \A k \in DOMAIN matched :
        LET m == matched[k]
        IN  /\ m.rule \in DOMAIN matchers
            /\ Matches(matchers[m.rule].matcher, ProbedAt(m)) = Some(m.len)
            /\ \A j \in 1..(m.rule - 1) :
                  ~Matches(matchers[j].matcher, ProbedAt(m)).some

\* C1 witness: an earlier rule won although a later rule would consume more bytes.
PriorityOverLengthWitness ==
    \E k \in DOMAIN matched :
        \E j \in DOMAIN matchers :
            /\ j > matched[k].rule
            /\ matched[k].emitted
            /\ matched[k].len >= 1
            /\ Matches(matchers[j].matcher, ProbedAt(matched[k])).some
            /\ Matches(matchers[j].matcher, ProbedAt(matched[k])).val > matched[k].len

\* C2. Conservation: when lex returns Ok, the spans of the matches (emitted tokens and
\* skipped matches alike) partition [0, byte length of source): the first starts at 0,
\* each starts where the previous one ended, the last ends at the source's length, the
\* lengths sum to it, and the returned tokens carry exactly the emitted spans.
Conservation ==
    pc = "ok" =>
        LET n == Len(matched)
        IN  /\ n = 0 => Len(source) = 0
            /\ n > 0 => /\ matched[1].start = 0
                        /\ matched[n].start + matched[n].len = Len(source)
            /\ \A k \in 1..(n - 1) :
                  matched[k].start + matched[k].len = matched[k + 1].start
            /\ SumLens(matched) = Len(source)
            /\ Len(result.tokens) = Len(EmittedMatches)
            /\ \A i \in DOMAIN EmittedMatches :
                  /\ result.tokens[i].position = EmittedMatches[i].start
                  /\ Len(result.tokens[i].contents) = EmittedMatches[i].len

\* C2 witness: a scan that returned Ok after both an emitted and a skipped match.
ConservationWitness ==
    /\ pc = "ok"
    /\ \E k \in DOMAIN matched : matched[k].emitted /\ matched[k].start > 0
    /\ \E k \in DOMAIN matched : ~matched[k].emitted

\* C3. Token span invariant: every token's text is the source's bytes from its start on,
\* its start is the cursor at which its rule matched, starts never decrease from one
\* token to the next, and the half-open spans of two tokens share no byte.
TokenSpanInvariant ==
    /\ Len(tokens) = Len(EmittedMatches)
    /\ \A i \in DOMAIN tokens :
          /\ tokens[i].position = EmittedMatches[i].start
          /\ tokens[i].position + Len(tokens[i].contents) <= Len(source)
          /\ tokens[i].contents =
                SubSeq(source, tokens[i].position + 1,
                       tokens[i].position + Len(tokens[i].contents))
    /\ \A i, j \in DOMAIN tokens :
          i < j =>
            /\ tokens[i].position <= tokens[j].position
            /\ (tokens[i].position .. (tokens[i].position + Len(tokens[i].contents) - 1))
                 \cap (tokens[j].position .. (tokens[j].position + Len(tokens[j].contents) - 1))
                 = {}

\* C3 witness: two tokens, the second past a multi-byte first.
TokenSpanWitness ==
    /\ Len(tokens) >= 2
    /\ tokens[1].contents = Hook
    /\ tokens[2].position = 2

\* A rule that skips: its creator is TokenCreator::None.
IsSkipRule(j) == matchers[j].creator.kind = "None"

UnexpectedChar ==
    [][ ( /\ pc = "scan"
          /\ remaining # <<>>
          /\ \A j \in DOMAIN matchers : ~Matches(matchers[j].matcher, remaining).some )
        => ( /\ pc' = "err"
             /\ result'.tag = "Err"
             /\ result'.position = Len(source) - Len(remaining)
             /\ result'.position = SumLens(matched)
             /\ result'.unmatched = CharAt(source, result'.position)
             /\ remaining' = remaining ) ]_vars

\* C5 witness: an error past some consumed text, on a two-byte character.
UnexpectedCharWitness ==
    /\ pc = "err"
    /\ result.position > 0
    /\ result.unmatched = Hook

\* C6. Batch fail-fast: lex returns either Ok with every token of the fully consumed
\* source, in order, or one error that carries a position and a character and none of
\* the tokens collected before it.
BatchFailFast ==
    /\ result = NoResult <=> pc \in {"scan", "panic"}
    /\ pc = "ok" =>
          /\ result.tag = "Ok"
          /\ remaining = <<>>
          /\ Len(result.tokens) = Len(EmittedMatches)
          /\ \A i \in DOMAIN EmittedMatches :
                /\ result.tokens[i].position = EmittedMatches[i].start
                /\ result.tokens[i].contents =
                      SliceTo(ProbedAt(EmittedMatches[i]), EmittedMatches[i].len)
                /\ <<result.tokens[i].typ>> =
                      Create(matchers[EmittedMatches[i].rule].creator,
                             result.tokens[i].contents)
    /\ pc = "err" =>
          /\ result.tag = "Err"
          /\ DOMAIN result = {"tag", "position", "unmatched"}

\* C6 witness: an error returned after tokens had been collected.
BatchFailFastWitness ==
    /\ pc = "err"
    /\ Len(tokens) >= 1

\* C7. Errors are terminal: once lex has returned (an error, or Ok at exhaustion), no
\* later step pushes a token, moves the cursor or changes the result.
ErrorsTerminal ==
    [][ result # NoResult
        => /\ tokens' = tokens
           /\ position' = position
           /\ remaining' = remaining
           /\ result' = result ]_vars

\* C7 witness: an error with input after the unmatched character that a rule matches.
ErrorsTerminalWitness ==
    /\ pc = "err"
    /\ LET rest == SliceFrom(remaining, Len(FirstChar(remaining)))
       IN  /\ rest # <<>>
           /\ FirstMatch(matchers, rest) # 0

\* The length of the prefix of s, from offset 0, that the expression matches; None when
\* the expression matches no prefix of s.
AnchoredPrefix(re, s) ==
    LET end == RunEnd(re.class, s, 0)
    IN  IF CharCount(s, 0, end) >= re.min THEN Some(end) ELSE None

\* C8 as claimed. Anchored regex matching: a Regex matcher returns Some(n) only for a
\* match of the n-byte prefix of the probed text, and None when the expression matches
\* only further on or not at all, with or without ^ in the pattern.
AnchoredRegexMatching ==
    \A j \in DOMAIN matchers :
        matchers[j].matcher.kind = "Regex" =>
            Matches(matchers[j].matcher, remaining)
              = AnchoredPrefix(matchers[j].matcher.re, remaining)

\* C9. Literal matching: a Literal matcher with pattern p returns Some(byte length of p)
\* exactly when the probed text begins with the bytes of p, and None otherwise; in lex,
\* the text a literal rule consumes is its pattern, byte for byte.
LiteralMatching ==
    /\ \A j \in DOMAIN matchers :
          matchers[j].matcher.kind = "Literal" =>
              LET p == matchers[j].matcher.pattern
                  r == Matches(matchers[j].matcher, remaining)
                  prefix == /\ Len(p) <= Len(remaining)
                            /\ \A i \in 1..Len(p) : remaining[i] = p[i]
              IN  /\ prefix => r = Some(Len(p))
                  /\ ~prefix => r = None
    /\ \A k \in DOMAIN matched :
          matchers[matched[k].rule].matcher.kind = "Literal" =>
              /\ matched[k].len = Len(matchers[matched[k].rule].matcher.pattern)
              /\ SliceTo(ProbedAt(matched[k]), matched[k].len)
                    = matchers[matched[k].rule].matcher.pattern

\* C9 witness: the literal + consumed one byte of an input that begins with ++.
LiteralMatchingWitness ==
    \E k \in DOMAIN matched :
        /\ matchers[matched[k].rule].matcher = Literal(PlusCh)
        /\ StartsWith(ProbedAt(matched[k]), PlusCh \o PlusCh)
        /\ matched[k].len = 1

\* The cursor after the k-th match: where the next probe starts.
CursorAfter(k) ==
    IF k < Len(matched) THEN matched[k + 1].start ELSE Len(source) - Len(remaining)

\* C10. Multi-byte correctness: lengths and positions count bytes. The literal of one
\* two-byte character reports length 2 where it matches; after it has won, the next
\* probe starts 2 bytes later, and so does the position of the next token.
MultiByteCorrectness ==
    /\ \A j \in DOMAIN matchers :
          (matchers[j].matcher = Literal(Hook) /\ StartsWith(remaining, Hook))
              => Matches(matchers[j].matcher, remaining) = Some(2)
    /\ \A k \in DOMAIN matched :
          matchers[matched[k].rule].matcher = Literal(Hook) =>
              /\ matched[k].len = 2
              /\ CursorAfter(k) = matched[k].start + 2
              /\ k = Len(matched) => position = matched[k].start + 2
    /\ Len(tokens) = Len(EmittedMatches)
    /\ \A i \in DOMAIN tokens : tokens[i].position = EmittedMatches[i].start

\* C10 witness: a two-byte character consumed by its literal, then a token 2 bytes on.
MultiByteWitness ==
    \E k \in DOMAIN matched :
        /\ matchers[matched[k].rule].matcher = Literal(Hook)
        /\ k < Len(matched)
        /\ matched[k + 1].emitted
        /\ matched[k + 1].start = matched[k].start + 2
        /\ tokens[Len(tokens)].position = matched[k].start + 2

\* C11. Skip creator: a pass won by a rule whose creator is TokenCreator::None consumes
\* the matched bytes (remaining loses exactly them, position grows by their length),
\* pushes no token, and leaves the loop running with nothing returned; and the position
\* of every token counts the bytes of all matches before it, the skipped ones included.
SkipCreator ==
    [][(Len(matched') = Len(matched) + 1
            /\ IsSkipRule(matched'[Len(matched')].rule))
        => LET m == matched'[Len(matched')]
           IN  /\ tokens' = tokens
               /\ m.len <= Len(remaining)
               /\ remaining' = SubSeq(remaining, m.len + 1, Len(remaining))
               /\ position' = position + m.len
               /\ pc' = "scan"
               /\ result' = NoResult
               /\ \A i \in DOMAIN tokens' :
                     \E k \in DOMAIN matched' :
                         /\ matched'[k].emitted
                         /\ Len(SelectSeq(SubSeq(matched', 1, k),
                                          LAMBDA x : x.emitted)) = i
                         /\ tokens'[i].position = SumLens(SubSeq(matched', 1, k - 1))
      ]_vars

\* C11 witness: a skipped match of at least one byte, then a token whose position
\* counts the skipped bytes.
SkipCreatorWitness ==
    \E k \in DOMAIN matched :
        /\ IsSkipRule(matched[k].rule)
        /\ matched[k].len >= 1
        /\ k < Len(matched)
        /\ matched[k + 1].emitted
        /\ tokens # <<>>
        /\ tokens[Len(tokens)].position >= matched[k].len

\* C13. Empty input: on the empty source no pass of the loop runs, whatever the table
\* (a table with a rule that matches the empty string included): no match is made, no
\* token pushed, no error returned, and the one step lex takes returns Ok of no tokens.
EmptyInput ==
    [][source = <<>> =>
          /\ pc = "scan"
          /\ matched = <<>>
          /\ tokens = <<>>
          /\ pc' = "ok"
          /\ result' = OkResult(<<>>)
          /\ matched' = <<>>
          /\ tokens' = <<>>
      ]_vars

\* C13 witness: the empty source lexed to Ok of no tokens by a table holding a rule
\* that matches the empty string.
EmptyInputWitness ==
    /\ source = <<>>
    /\ pc = "ok"
    /\ result = OkResult(<<>>)
    /\ \E j \in DOMAIN matchers : Matches(matchers[j].matcher, <<>>) = Some(0)

\* C14 as claimed. Forward progress: every pass of the loop in which a rule matches
\* leaves strictly fewer bytes to scan, so the loop ends after at most as many passes as
\* the source has bytes, zero-length matches included. (A pass that consumes nothing
\* leaves remaining as it was; the same rule then wins the next pass, and every pass
\* after it.)
ForwardProgress ==
    [][Len(matched') = Len(matched) + 1 => Len(remaining') < Len(remaining)]_vars

\* C18. Exhaustion after trailing skipped text: once the cursor is at the end of the
\* source, however it got there (by a skipped match as well as by a token), lex returns
\* Ok of the tokens pushed so far, one per emitting match; an error is never returned
\* with the cursor at the end.
ExhaustionAfterSkip ==
    [][/\ (pc = "scan" /\ remaining = <<>>) =>
              /\ pc' = "ok"
              /\ result' = OkResult(tokens)
              /\ Len(tokens) = Len(EmittedMatches)
       /\ pc' = "err" => remaining' # <<>>
      ]_vars

\* C18 witness: skipped text, one token, skipped text up to the end: Ok of that token.
ExhaustionAfterSkipWitness ==
    /\ pc = "ok"
    /\ Len(matched) = 3
    /\ ~matched[1].emitted /\ matched[1].len >= 1
    /\ matched[2].emitted
    /\ ~matched[3].emitted /\ matched[3].len >= 1
    /\ result.tag = "Ok"
    /\ Len(result.tokens) = 1
    /\ result.tokens[1].position = matched[1].len

\* What a finished call returned, in the form of Lex.
Returned(p, r) == IF p = "panic" THEN [tag |-> "Panic"] ELSE r

\* C16. Shared rule table: no step of a call of lex changes the table, and of two calls
\* interleaved on one Lexer each returns what lex returns for its source when it runs
\* alone on that table.
SharedTable ==
    [][/\ matchers' = matchers
       /\ pc' \in {"ok", "err", "panic"}
             => Returned(pc', result') = Lex(matchers, source')
       /\ other'.pc \in {"ok", "err", "panic"}
             => Returned(other'.pc, other'.result) = Lex(matchers, other'.source)
      ]_vars

\* C16 witness: both calls have returned, each after the other had made a match and
\* before it had returned.
SharedTableWitness ==
    /\ pc \in {"ok", "err"}
    /\ other.pc \in {"ok", "err"}
    /\ matched # <<>>
    /\ other.matched # <<>>
    /\ source # other.source
    /\ result # other.result

\* The table of ChainTables in one fixed declaration order.
ChainCanonical ==
    << Rule(NoneCreator, Regex(ReAnchoredSpaces)),
       Rule(NoneCreator, Literal(Hook)),
       Rule(FnCreator("Number"), Regex(ReAnchoredDigits)) >>

ToEngineCreator(c) ==
    CASE c.kind = "Cloned" -> Unit(c.token)
      [] c.kind = "Fn" ->
            Parser(c.f, IF c.f = "Number" THEN "parse_int" ELSE "parse_string")
      [] c.kind = "None" -> Skip

ToEngineRules(table) ==
    [j \in DOMAIN table |-> Rule(ToEngineCreator(table[j].creator), table[j].matcher)]

\* The table without its i-th rule.
Without(table, i) == SubSeq(table, 1, i - 1) \o SubSeq(table, i + 1, Len(table))

\* What the batch operation returned, in the form of what lex returns.
AsLexResult(r) ==
    CASE r.tag = "Ok" ->
            OkResult([j \in DOMAIN r.tokens |->
                        NewToken(r.tokens[j].kind, r.tokens[j].text, r.tokens[j].start)])
      [] r.tag = "Err" /\ r.error.tag = "UnexpectedChar" ->
            [tag |-> "Err", position |-> r.error.position,
             unmatched |-> r.error.character]
      [] OTHER -> r

\* What the engine returns with the pattern of the i-th rule moved to the global skip
\* list, the other rules kept in their order.
GlobalSkipResult(i) ==
    AsLexResult(Collect(<<matchers[i].matcher>>, ToEngineRules(Without(matchers, i)),
                        source))

\* C20 as claimed. Per-rule skip and global skip are interchangeable: for a skip rule at
\* any position of the table, lex returns the tokens, or the error, that the engine
\* returns with the same pattern in its global skip list instead.
SkipInterchangeable ==
    \A i \in DOMAIN matchers :
        (IsSkipRule(i) /\ pc \in {"ok", "err", "panic"})
            => Returned(pc, result) = GlobalSkipResult(i)

\* No rule declared before the i-th has matched, or matches now, at a cursor where the
\* i-th rule matches.
NoEarlierMatch(i) ==
    /\ \A k \in DOMAIN matched :
          Matches(matchers[i].matcher, ProbedAt(matched[k])).some
              => matched[k].rule >= i
    /\ (remaining # <<>> /\ Matches(matchers[i].matcher, remaining).some)
          => \A j \in 1..(i - 1) : ~Matches(matchers[j].matcher, remaining).some

\* C20 amended. The two are interchangeable on every input on which no rule declared
\* before the skip rule matches at a cursor where the skip rule matches (on every input,
\* when the rule is declared first): lex then returns what the engine returns with the
\* pattern in its global skip list.
SkipInterchangeableUnlessPreempted ==
    \A i \in DOMAIN matchers :
        (IsSkipRule(i) /\ NoEarlierMatch(i) /\ pc \in {"ok", "err", "panic"})
            => Returned(pc, result) = GlobalSkipResult(i)

\* C20 witness: a skip rule declared after a token rule has skipped text, the token rule
\* has pushed a token, and lex has returned.
SkipInterchangeableWitness ==
    /\ pc = "ok"
    /\ Len(matchers) = 2
    /\ IsSkipRule(2)
    /\ ~IsSkipRule(1)
    /\ NoEarlierMatch(2)
    /\ tokens # <<>>
    /\ \E k \in DOMAIN matched : matched[k].rule = 2 /\ matched[k].len >= 1
    /\ result = GlobalSkipResult(2)

\* The text of a consumed span.
SpanText(m) == SubSeq(source, m.start + 1, m.start + m.len)

\* C12. Field-parser failure: when the parser function of the winning rule's Parser
\* creator fails on the matched text, the pull returns TokenParseError with the offset
\* at which the matched span starts (the cursor is by then at its end), the cause is the
\* parser function's own error, no token is added, and the scan is over; and a parser
\* function that fails on the text it is given always ends the scan this way.
FieldParseFailure ==
    [][/\ (pc' = "err" /\ pc = "scan" /\ result'.error.tag = "TokenParseError") =>
              LET m == matched'[Len(matched')]
              IN  /\ Len(matched') > Len(matched)
                  /\ m.list = "token"
                  /\ ~m.emitted
                  /\ matchers[m.rule].creator.kind = "Parser"
                  /\ result'.error.position = m.start
                  /\ position' = m.start + m.len
                  /\ result'.error.error = ApplyParserFn(matchers[m.rule].creator.func,
                                                         SpanText(m)).res.err
                  /\ result'.error.error.text = SpanText(m)
                  /\ tokens' = tokens
       /\ (Len(matched') > Len(matched)
           /\ LET m == matched'[Len(matched')]
              IN  /\ m.list = "token"
                  /\ matchers[m.rule].creator.kind = "Parser"
                  /\ matchers[m.rule].creator.func = "str::parse"
                  /\ ~IsDigits(SpanText(m)))
             => /\ pc' = "err"
                /\ result'.error.tag = "TokenParseError"
       /\ pc = "err" => (pc' = "err" /\ tokens' = tokens)
      ]_vars

\* C12 witness: a token, then a match whose parser function fails: the error carries
\* the start of the span, the cursor stands behind it, and input is left.
FieldParseFailureWitness ==
    /\ pc = "err"
    /\ result.error.tag = "TokenParseError"
    /\ result.error.position >= 1
    /\ result.error.position < position
    /\ tokens # <<>>
    /\ remaining # <<>>

\* The patterns of the generated lists that do not compile.
InvalidPatterns(d) ==
    LET ms == GeneratedMatchers(d)
        sk == GeneratedSkipPatterns(d)
    IN  {ms[k].pattern : k \in {j \in DOMAIN ms :
                                  ms[j].is_regex /\ ~CompileRegex(ms[j].pattern).ok}}
        \cup
        {sk[k].pattern : k \in {j \in DOMAIN sk :
                                  sk[j].is_regex /\ ~CompileRegex(sk[j].pattern).ok}}

\* C15. Construction is the only place an invalid pattern can fail: when a pattern of
\* the lists does not compile, the construction step ends with the error value
\* InvalidRegex naming that pattern, handed to the caller of Lexer::new (the generated
\* lexer() unwraps it on the spot), and no engine exists: no rule table, no skip list, no
\* step afterwards; and no pull ever reports InvalidRegex.
ConstructionOnly ==
    [][/\ pc = "build" =>
              \A bad \in {InvalidPatterns(decl)} :
                  IF bad # {}
                  THEN /\ pc' \in {"failed", "panic"}
                       /\ result'.tag = "Err"
                       /\ result'.error.tag = "InvalidRegex"
                       /\ result'.error.pattern \in bad
                       /\ matchers' = <<>>
                       /\ skips' = <<>>
                       /\ tokens' = <<>>
                  ELSE /\ pc' = "scan"
                       /\ result' = NoResult
       /\ pc # "failed"
       /\ pc # "panic"
       /\ (pc = "scan" /\ result'.tag = "Err") => result'.error.tag # "InvalidRegex"
      ]_vars

\* C15 witness: Lexer::new has returned InvalidRegex for the pattern + of a declaration
\* that has a rule that compiles too, on a source that is not empty.
ConstructionOnlyWitness ==
    /\ pc = "failed"
    /\ result = [tag |-> "Err", error |-> LexErrorInvalidRegex(<<"+">>)]
    /\ Len(GeneratedMatchers(decl)) = 2
    /\ \E k \in 1..2 : Compile(GeneratedMatchers(decl)[k].pattern,
                               GeneratedMatchers(decl)[k].is_regex).ok
    /\ source # <<>>
    /\ matchers = <<>>

\* The pattern an enum-level attribute declares to be skipped, in either form:
\* #[skip(P)], or #[token(skip = P)].
DeclaredSkip(attr) ==
    IF attr.path = "skip" THEN ParsePatternString(Trim(attr.tokens))
    ELSE IF attr.path = "token" /\ StartsWith(attr.tokens, <<"skip", " ", "=">>)
    THEN ParsePatternString(Trim(SubSeq(attr.tokens, 4, Len(attr.tokens))))
    ELSE NoPattern

\* C17 as claimed. An enum-level skip declaration is honoured in both forms: the pattern
\* of every #[skip(P)] and of every #[token(skip = P)] on the enum is in the skip list
\* of the derived lexer, so that text it matches yields no token and no error.
SkipDeclarationHonoured ==
    pc \in {"scan", "ok", "err"} =>
        /\ \A k \in DOMAIN decl.attrs :
              LET p == DeclaredSkip(decl.attrs[k])
              IN  p.some =>
                    \E j \in DOMAIN skips : Ok(skips[j]) = Compile(p.pattern, p.is_regex)
        /\ (pc = "err" /\ result.error.tag = "UnexpectedChar") =>
              \A k \in DOMAIN decl.attrs :
                  LET p == DeclaredSkip(decl.attrs[k])
                  IN  p.some =>
                        ~Matches(Compile(p.pattern, p.is_regex).val, remaining).some

\* C21: when the pattern of a Matcher matches with byte length len, apply returns len
\* and the text it hands to the creator is the first len bytes of the input.
ApplyPassesMatchedBytes ==
    (pc = "applied" /\ result.some) =>
        /\ result.len = MatcherPatternMatches(matchers[1].pattern, source).val
        /\ result.passed = SliceTo(source, result.len)

\* C27: on the same expression and input, TokenMatcher::matches and
\* MatcherPattern::matches return the same Option<usize>.
RegexImplementationsAgree ==
    /\ pc = "token_matched" =>
          result = MatcherPatternMatches(matchers[1].pattern, source)
    /\ pc = "pattern_matched" => result = Matches(matchers[1].pattern, source)

\* Whether s is n >= 1 consecutive copies of the non-empty text p.
IsCopies(s, p) ==
    /\ p # <<>>
    /\ s # <<>>
    /\ Len(s) % Len(p) = 0
    /\ \A k \in 0..(Len(s) \div Len(p) - 1) : StartsWith(SliceFrom(s, k * Len(p)), p)

\* The literal rule i emits, and at no copy of its pattern does an earlier rule match.
LiteralRuleOfCopies(i) ==
    /\ matchers[i].matcher.kind = "Literal"
    /\ matchers[i].creator.kind # "None"
    /\ IsCopies(source, matchers[i].matcher.pattern)
    /\ \A k \in 0..(Len(source) \div Len(matchers[i].matcher.pattern) - 1) :
          FirstMatch(matchers,
                     SliceFrom(source, k * Len(matchers[i].matcher.pattern))) = i

\* C22: a token pushed by a literal rule has contents byte-identical to the rule's
\* pattern; a source of n consecutive copies of a literal pattern p, where no earlier
\* rule matches, is lexed into n tokens, each with contents p, one per copy.
LiteralTokenText ==
    /\ Len(EmittedMatches) = Len(tokens)
    /\ \A k \in DOMAIN tokens :
          matchers[EmittedMatches[k].rule].matcher.kind = "Literal" =>
              tokens[k].contents = matchers[EmittedMatches[k].rule].matcher.pattern
    /\ \A i \in DOMAIN matchers :
          LiteralRuleOfCopies(i) =>
              /\ pc \in {"scan", "ok"}
              /\ \A k \in DOMAIN tokens :
                    /\ tokens[k].contents = matchers[i].matcher.pattern
                    /\ tokens[k].position = (k - 1) * Len(matchers[i].matcher.pattern)
              /\ (pc = "scan" /\ remaining = <<>>) \/ pc = "ok" =>
                    Len(tokens) = Len(source) \div Len(matchers[i].matcher.pattern)

\* Three copies of a literal have been lexed into three tokens.
LiteralTokenTextWitness ==
    /\ pc = "ok"
    /\ Len(tokens) = 3
    /\ \E i \in DOMAIN matchers : LiteralRuleOfCopies(i)

\* C24: at the head of every pass of the scanning loop, position plus the byte length
\* of remaining is the byte length of source, remaining is the suffix of source that
\* starts at position, and position lies between 0 and the byte length of source.
CursorAccounting ==
    pc = "scan" =>
        /\ position + ByteLen(remaining) = ByteLen(source)
        /\ remaining = SliceFrom(source, position)
        /\ 0 <= position
        /\ position <= ByteLen(source)

\* The loop head after two matches, one of them wider than a byte, with input left.
CursorAccountingWitness ==
    /\ pc = "scan"
    /\ Len(matched) = 2
    /\ \E k \in DOMAIN matched : matched[k].len > 1
    /\ remaining # <<>>

\* C25: lex fails in no way other than by returning LexerError: whatever a matcher of
\* the table reports on the remaining input is a length within the input and on a
\* character boundary, so that both slices can be taken, and no call panics.
NoFailureButLexerError ==
    /\ pc # "panic"
    /\ (pc = "scan" /\ remaining # <<>>) =>
          \A i \in DOMAIN matchers :
              Matches(matchers[i].matcher, remaining).some =>
                  /\ Matches(matchers[i].matcher, remaining).val <= ByteLen(remaining)
                  /\ IsCharBoundary(remaining,
                                    Matches(matchers[i].matcher, remaining).val)

\* No rule of the table reports a match of length 0 on any suffix of the source (a
\* suffix is a &str: it starts on a character boundary).
NoEmptyMatch ==
    \A i \in DOMAIN matchers :
        \A k \in {b \in 0..ByteLen(source) : IsCharBoundary(source, b)} :
            Matches(matchers[i].matcher, SliceFrom(source, k)).some =>
                Matches(matchers[i].matcher, SliceFrom(source, k)).val >= 1

\* C26: when no match of any rule of the table is empty, a call of lex makes at most
\* as many successful matches as the source has bytes, and every match moves the
\* position strictly forward.
BoundedTermination ==
    [][NoEmptyMatch =>
          /\ Len(matched') <= ByteLen(source)
          /\ Len(matched') = Len(matched) + 1 =>
                /\ position' > position
                /\ ByteLen(remaining') < ByteLen(remaining)]_vars

\* lex has returned after as many matches as the source has bytes.
BoundedTerminationWitness ==
    /\ NoEmptyMatch
    /\ pc = "ok"
    /\ Len(matched) = 3
    /\ Len(matched) = ByteLen(source)

\* C30: into_token_result turns a plain value v into Ok(v) whatever the position, an
\* Ok(v) into Ok(v), and an Err(e) into TokenParseError with exactly the position it
\* was given and e as the cause.
IntoTokenResultConversion ==
    pc = "converted" =>
        /\ matched[1].returns = "T" => result = Ok(matched[1].val)
        /\ (matched[1].returns = "Result" /\ matched[1].res.ok) =>
              result = Ok(matched[1].res.val)
        /\ (matched[1].returns = "Result" /\ ~matched[1].res.ok) =>
              /\ ~result.ok
              /\ result.err.tag = "TokenParseError"
              /\ result.err.position = position
              /\ result.err.error = matched[1].res.err

\* An Err has been converted at a position other than 0.
IntoTokenResultConversionWitness ==
    /\ pc = "converted"
    /\ position > 0
    /\ matched[1].returns = "Result"
    /\ ~matched[1].res.ok
    /\ result.err.position = position

\* The k-th smallest element of a set of numbers.
Nth(S, k) == CHOOSE j \in S : Cardinality({x \in S : x < j}) = k - 1

\* The variants that yield a rule, and the enum attributes that yield a skip pattern.
RuleVariants == {j \in DOMAIN decl.variants : ExtractTokenMatcher(decl.variants[j]).some}
SkipAttrs ==
    {j \in DOMAIN decl.attrs :
        /\ decl.attrs[j].path = "skip"
        /\ ParsePatternString(Trim(decl.attrs[j].tokens)).some}

\* C28: the generated token rule table lists the rules in the declaration order of
\* their variants, and the generated skip list lists the skip patterns in the order of
\* their attributes: the k-th entry comes from the k-th variant (attribute) that
\* yields one, so none is reordered, duplicated or merged.
AuthoredOrder ==
    pc = "expanded" =>
        /\ Len(matchers) = Cardinality(RuleVariants)
        /\ \A k \in DOMAIN matchers :
              matchers[k] =
                MatcherImplementation(
                    ExtractTokenMatcher(decl.variants[Nth(RuleVariants, k)]))
        /\ Len(skips) = Cardinality(SkipAttrs)
        /\ \A k \in DOMAIN skips :
              LET p == ParsePatternString(Trim(decl.attrs[Nth(SkipAttrs, k)].tokens))
              IN  skips[k] = [pattern |-> p.pattern, is_regex |-> p.is_regex]

\* Two different rules and two different skip patterns have been generated.
AuthoredOrderWitness ==
    /\ pc = "expanded"
    /\ Len(matchers) = 2
    /\ matchers[1] # matchers[2]
    /\ Len(skips) = 2
    /\ skips[1] # skips[2]

\* The index of the quote that closes a string literal whose contents start at index i
\* of s: the first quote, for a raw string; the first quote that no backslash escapes,
\* otherwise; 0 when there is none.
RECURSIVE ClosingQuote(_, _, _)
ClosingQuote(s, i, raw) ==
    IF i > Len(s) THEN 0
    ELSE IF s[i] = "\"" THEN i
    ELSE IF ~raw /\ s[i] = "\\" THEN ClosingQuote(s, i + 2, raw)
    ELSE ClosingQuote(s, i + 1, raw)

\* The string literal an attribute's text begins with, as the author wrote it: whether
\* it is raw, the characters between its quotes, and what follows it.
LeadingLiteral(toks) ==
    LET s == Trim(toks)
        raw == StartsWith(s, <<"r", "\"">>)
        first == IF raw THEN 3 ELSE 2
        q == IF raw \/ StartsWith(s, <<"\"">>) THEN ClosingQuote(s, first, raw) ELSE 0
    IN  IF q = 0 THEN [some |-> FALSE]
        ELSE [some |-> TRUE, raw |-> raw, between |-> SubSeq(s, first, q - 1),
              rest |-> TrimStart(SubSeq(s, q + 1, Len(s)))]

\* A variant that carries #[token("pattern")] or #[token("pattern", function)] with a
\* well-formed string literal as its pattern.
CarriesTokenPattern(variant) ==
    /\ Len(variant.attrs) = 1
    /\ variant.attrs[1].path = "token"
    /\ LeadingLiteral(variant.attrs[1].tokens).some
    /\ \/ /\ LeadingLiteral(variant.attrs[1].tokens).rest = <<>>
          /\ variant.fields = "Unit"
       \/ /\ LeadingLiteral(variant.attrs[1].tokens).rest # <<>>
          /\ Head(LeadingLiteral(variant.attrs[1].tokens).rest) = ","
          /\ variant.fields = "Unnamed"

\* C29: every variant that carries a token attribute with a well-formed string-literal
\* pattern contributes exactly one rule to the generated table, a pattern with a comma
\* in it included.
NoRuleDropped ==
    pc = "expanded" =>
        /\ \A j \in DOMAIN decl.variants :
              CarriesTokenPattern(decl.variants[j]) =>
                  ExtractTokenMatcher(decl.variants[j]).some
        /\ Len(matchers)
             = Cardinality({j \in DOMAIN decl.variants :
                              CarriesTokenPattern(decl.variants[j])})

\* The text an attribute's leading string literal stands for: the characters between
\* the quotes as they are for a raw string, with the escapes resolved otherwise.
AuthoredPattern(toks) ==
    IF LeadingLiteral(toks).raw THEN LeadingLiteral(toks).between
    ELSE Unescape(LeadingLiteral(toks).between).val

\* The rule or skip entry agrees with the quoting of the attribute it comes from, and
\* the engine compiles it to the matcher kind its tag says.
ClassifiedAs(entry, toks) ==
    /\ entry.is_regex = LeadingLiteral(toks).raw
    /\ entry.pattern = AuthoredPattern(toks)
    /\ Compile(entry.pattern, entry.is_regex).ok =>
          Compile(entry.pattern, entry.is_regex).val.kind
            = IF LeadingLiteral(toks).raw THEN "Regex" ELSE "Literal"

\* C23: a pattern written r"..." yields a regex entry whose pattern is the text between
\* the quotes verbatim, a pattern written "..." yields a literal entry whose pattern is
\* the unescaped string value, in token and in skip attributes alike; a literal entry
\* is matched as plain text and a regex entry as a regular expression.
ClassifiedByQuoting ==
    pc = "expanded" =>
        /\ \A k \in DOMAIN matchers :
              ClassifiedAs(matchers[k],
                           decl.variants[Nth(RuleVariants, k)].attrs[1].tokens)
        /\ \A k \in DOMAIN skips :
              ClassifiedAs(skips[k], decl.attrs[Nth(SkipAttrs, k)].tokens)

\* A regex rule, the literal rule of "\\d" and a skip pattern have been generated.
ClassifiedByQuotingWitness ==
    /\ pc = "expanded"
    /\ \E k \in DOMAIN matchers : matchers[k].is_regex
    /\ \E k \in DOMAIN matchers :
          ~matchers[k].is_regex /\ matchers[k].pattern = <<"\\", "d">>
    /\ skips # <<>>

====
